---- MODULE Spec2Model ----
(***************************************************************************)
(* Mode-transition engine of the interactive particle tree (src/main.js):  *)
(* the gesture callback onHandsResults, the per-frame tick animate, the    *)
(* start sequence handleOverlayClick and the listeners of the <video>      *)
(* element, together with the part of the video element's behaviour the    *)
(* program depends on (play/pause, its queued 'playing' and 'pause'        *)
(* events, the promise returned by play()), the camera wrapper mediaCamera *)
(* with its frame loop, and the scene graph that animate() rewrites.       *)
(*                                                                         *)
(* Five specifications.  Spec follows the mode and video machinery over   *)
(* any number of ticks; it does not follow the scene graph (scene.observed *)
(* is FALSE) and takes a frame to be in flight for as long as capture      *)
(* runs.  SpecScene follows everything the program does, the scene graph   *)
(* and the frame loop included, for MaxTicks ticks.  SpecStop is SpecScene *)
(* with a caller of mediaCamera.stop(), which the program exports and      *)
(* never calls itself.  SpecFade and SpecStall start in a session at rest  *)
(* and follow, over any number of ticks, the music's volume and the stall  *)
(* heuristic of the video, which the other three leave as they are.        *)
(*                                                                         *)
(* Units.  Landmark coordinates and distances are in 1/1000 of the         *)
(* normalised image (0.25 is 250); opacities are in 1/100 (0.92 is 92),    *)
(* with THREE.MathUtils.lerp rounded to the nearest 1/100.                 *)
(***************************************************************************)
EXTENDS Integers, Sequences, FiniteSets, TLC

VARIABLES
    mode,            \* STATE.mode: "TREE" | "SCATTER"
    isPlayingVideo,  \* STATE.isPlayingVideo
    handDetected,    \* STATE.handDetected
    handX,           \* STATE.handX, in 1/1000
    gesture,         \* STATE.gesture: "NONE" | "OPEN" | "CLOSED" | "PINCH"
    videoOpacity,    \* STATE.videoOpacity, in 1/100
    prevMode,        \* _prevMode
    userInteracted,  \* userInteracted
    started,         \* started
    startPc,         \* where handleOverlayClick is suspended
    hands,           \* hands # null, with onHandsResults registered
    running,         \* mediaCamera's running flag (frameLoop is sending frames)
    videoEl,         \* the <video> element: paused, pending play promise, queued events
    lastOp,          \* the operation that made the last step, and the case it took
    calls,           \* the play()/pause() requests that operation made on videoEl
                     \* and audioEl, in order
    modeLeftPrev,    \* since the last tick, mode has differed from _prevMode
    loaded,          \* the window 'load' listener has run
    mediaCamera,     \* the camera stream, the frame loop and whether stop() was called
    tables,          \* the formation tables and particle counts built by the module
    scene            \* clock, yaw of the main cloud and live positions; the frame
                     \* callbacks due, the music's volume, the stall tracking

vars == <<mode, isPlayingVideo, handDetected, handX, gesture, videoOpacity,
          prevMode, userInteracted, started, startPc, hands, running,
          videoEl, lastOp, calls, modeLeftPrev, loaded, mediaCamera, tables, scene>>

STATEvars == <<mode, isPlayingVideo, handDetected, handX, gesture, videoOpacity>>
startVars == <<userInteracted, started, startPc, hands, running>>
sceneVars == <<tables, scene>>

(***************************************************************************)
(* Bounds of the model.                                                    *)
(***************************************************************************)
\* Events of the video element that may be queued and not yet dispatched.
MaxVideoTasks == 2
\* Ticks, after the one the module runs itself, followed by a specification
\* that observes the scene.
MaxTicks == 2
\* Particles of the main cloud, of the spiral band and of the star.
ParticleCount == 1
SpiralCount == 2
StarCount == 1

(***************************************************************************)
(* Program constants.                                                      *)
(***************************************************************************)
ClosedThreshold == 250      \* avgDist < 0.25
OpenThreshold == 350        \* avgDist > 0.35
PinchThreshold == 50        \* pinchDist < 0.05
PinchOpacityGate == 80      \* STATE.videoOpacity > 0.8
videoDisplayOpacity == 92   \* CONFIG.videoDisplayOpacity
OpacityLerpPct == 5         \* lerp(..., 0.05)

(***************************************************************************)
(* THREE.Vector3.distanceTo on points with z = 0.                          *)
(***************************************************************************)
RECURSIVE SqrtBetween(_, _, _)
SqrtBetween(n, lo, hi) ==
    IF lo >= hi THEN lo
    ELSE LET mid == (lo + hi + 1) \div 2
         IN  IF mid * mid <= n THEN SqrtBetween(n, mid, hi)
                               ELSE SqrtBetween(n, lo, mid - 1)

Sqrt(n) == SqrtBetween(n, 0, 2000)

distanceTo(p, q) ==
    Sqrt((p.x - q.x) * (p.x - q.x) + (p.y - q.y) * (p.y - q.y))

(***************************************************************************)
(* The classifier's results.  A hand is the six landmarks the program      *)
(* reads: 0 wrist, 4 thumb tip, 8/12/16/20 finger tips.  The fingers are   *)
(* laid out around the wrist at the distances d[1..4] (up, along a 3-4-5   *)
(* diagonal, left, down) and the thumb tip at an offset from the index     *)
(* tip, so that every distance is a whole number of 1/1000.                *)
(***************************************************************************)
Landmarks(wx, d, t) ==
    (0  :> [x |-> wx, y |-> 500]) @@
    (4  :> [x |-> wx + t[1], y |-> 500 - d[1] + t[2]]) @@
    (8  :> [x |-> wx, y |-> 500 - d[1]]) @@
    (12 :> [x |-> wx + 3 * (d[2] \div 5), y |-> 500 - 4 * (d[2] \div 5)]) @@
    (16 :> [x |-> wx - d[3], y |-> 500]) @@
    (20 :> [x |-> wx, y |-> 500 + d[4]])

Spreads == { <<400, 200, 200, 199>>,    \* avgDist 0.24975
             <<250, 250, 250, 250>>,    \* avgDist 0.25
             <<350, 350, 350, 350>>,    \* avgDist 0.35
             <<200, 400, 400, 401>> }   \* avgDist 0.35025

NoHand == [multiHandLandmarks |-> <<>>]

\* Hands in the middle of the image (handX = 0), thumb at 0.04 and at 0.05
\* from the index tip; hands to the right (handX = 0.4), avgDist 0.24 and
\* 0.36, thumb at 0.06.
HandResults ==
    { [multiHandLandmarks |-> <<Landmarks(500, d, t)>>] :
        d \in Spreads, t \in { <<40, 0>>, <<30, 40>> } }
    \cup
    { [multiHandLandmarks |-> <<Landmarks(700, d, <<60, 0>>)>>] :
        d \in { <<240, 240, 240, 240>>, <<360, 360, 360, 360>> } }

Results == {NoHand} \cup HandResults

\* The results fed to the callback where the scene is observed: no hand and
\* the two hands to the right.
SceneResults ==
    {NoHand} \cup
    { [multiHandLandmarks |-> <<Landmarks(700, d, <<60, 0>>)>>] :
        d \in { <<240, 240, 240, 240>>, <<360, 360, 360, 360>> } }

(***************************************************************************)
(* onHandsResults: the measurements.  avgDist4 is four times avgDist (the  *)
(* sum the code divides by 4), so that no division rounds.                 *)
(***************************************************************************)
tips == <<8, 12, 16, 20>>

avgDist4(landmarks) ==
    LET wristPos == landmarks[0]
        RECURSIVE Sum(_)
        Sum(i) == IF i = 0 THEN 0
                  ELSE Sum(i - 1) + distanceTo(wristPos, landmarks[tips[i]])
    IN  Sum(Len(tips))

pinchDist(landmarks) == distanceTo(landmarks[4], landmarks[8])

\* The measurements of every result the classifier delivers in this model.
Measured ==
    [r \in HandResults |->
        [avgDist4  |-> avgDist4(r.multiHandLandmarks[1]),
         pinchDist |-> pinchDist(r.multiHandLandmarks[1])]]

\* Variant: the closed threshold taken inclusively.
isClosed_Inclusive(a4) == a4 <= 4 * ClosedThreshold

isClosed(a4) == a4 < 4 * ClosedThreshold
isOpen(a4) == a4 > 4 * OpenThreshold
isPinch(pd) == pd < PinchThreshold

\* Variant: a closed hand sets the gesture and leaves the mode alone.
OpenClosed_GestureOnly(a4, g, m) ==
    IF isClosed(a4) THEN [gesture |-> "CLOSED", mode |-> m]
    ELSE IF isOpen(a4) THEN [gesture |-> "OPEN", mode |-> "SCATTER"]
    ELSE [gesture |-> g, mode |-> m]

\* "Determine Open vs Closed": gesture and mode after the step.
OpenClosed(a4, g, m) ==
    IF isClosed(a4) THEN [gesture |-> "CLOSED", mode |-> "TREE"]
    ELSE IF isOpen(a4) THEN [gesture |-> "OPEN", mode |-> "SCATTER"]
    ELSE [gesture |-> g, mode |-> m]

\* Variant: the gate does not look at the mode.
PinchGate_NoMode(m, opacity) == opacity > PinchOpacityGate

\* Variant: the opacity threshold taken inclusively.
PinchGate_Inclusive(m, opacity) == m = "SCATTER" /\ opacity >= PinchOpacityGate

\* The gate of the pinch: "only toggle video if we are in scatter mode and
\* video is visible".
PinchGate(m, opacity) == m = "SCATTER" /\ opacity > PinchOpacityGate

\* Variant: the video is started on every gated pinch frame.
StartsVideo_EveryFrame(pinch, m, opacity, playing) ==
    pinch /\ PinchGate(m, opacity)

\* A pinch starts the video when the gate is open and it is not playing yet.
StartsVideo(pinch, m, opacity, playing) ==
    pinch /\ PinchGate(m, opacity) /\ ~playing

\* Variant: the flag is not cleared on entry.
DetectedAfter_Sticky(present, was) == present \/ was

\* STATE.handDetected: set to false on entry, to true when a hand is present.
DetectedAfter(present, was) == present

\* A hand is present in the results.
HandPresent(results) == Len(results.multiHandLandmarks) > 0

(***************************************************************************)
(* The video element.  paused is videoEl.paused.  pending is the play      *)
(* promise still waiting for the element to start playing: "none",         *)
(* "plain" (nobody listens to it) or "edge" (it carries the then-handler   *)
(* of animate's enter-SCATTER play).  tasks are the queued events, in the  *)
(* order the element will dispatch them: "playing" (the 'playing' event,   *)
(* after which the promises taken with it are resolved), "resolveEdge"     *)
(* (the promise of a play() on an element that was already playing is      *)
(* resolved) and "pause" (the 'pause' event; the promises pending at the   *)
(* pause are rejected, which only writes a diagnostic).                    *)
(***************************************************************************)
VideoInit == [paused |-> TRUE, pending |-> "none", tasks |-> <<>>]

\* videoEl.play(); allowed = the platform does not reject the request.
Play(el, kind, allowed) ==
    IF ~allowed THEN el
    ELSE IF el.paused THEN [el EXCEPT !.paused = FALSE, !.pending = kind]
    ELSE IF el.pending # "none"
         THEN [el EXCEPT !.pending = IF kind = "edge" THEN "edge" ELSE @]
    ELSE IF kind = "edge" THEN [el EXCEPT !.tasks = Append(@, "resolveEdge")]
    ELSE el

\* videoEl.pause()
Pause(el) ==
    IF el.paused THEN el
    ELSE [paused |-> TRUE, pending |-> "none", tasks |-> Append(el.tasks, "pause")]

(***************************************************************************)
(* THREE.MathUtils.lerp(x, y, t) = x + (y - x) * t, t in 1/100, rounded to *)
(* the nearest unit.                                                       *)
(***************************************************************************)
RoundDiv(n, d) == IF n >= 0 THEN (2 * n + d) \div (2 * d)
                            ELSE 0 - ((2 * (0 - n) + d) \div (2 * d))

lerp(x, y, t) == x + RoundDiv((y - x) * t, 100)

\* The operation of a step, the case it took and, for onHandsResults, what
\* it measured on the hand it was given.
NoArg == [avgDist4 |-> 0, pinchDist |-> 0]
Op(o, c, a) == [op |-> o, case |-> c, arg |-> a]

(***************************************************************************)
(* The scene graph.  Lengths and positions are in 1/100000 of a world      *)
(* unit, angles in 1/1000 rad, the clock in ms.  tables holds what the     *)
(* module builds once (the formation tables and the particle counts),      *)
(* scene what animate() writes on every tick.                              *)
(***************************************************************************)
treeHeight == 600000        \* CONFIG.treeHeight
treeRadius == 250000        \* CONFIG.treeRadius
LerpSpeedPct == 5           \* CONFIG.lerpSpeed
spiralSpeed == 80           \* CONFIG.spiralSpeed, 1/100000 per ms
spiralTurns == 5            \* CONFIG.spiralTurns
IdleStep == 2               \* particleSystem.rotation.y += 0.002
NoiseAmplitude == 500       \* Math.sin(time + tx) * 0.005
PiMrad == 3142              \* Math.PI

\* Math.sin on [0, pi], in 1/1000: 16x(pi - x) / (5 pi^2 - 4x(pi - x)).
SinHalfTurn(x) ==
    LET p == x * (PiMrad - x)
    IN  (((16 * p) \div 40) * 1000) \div ((5 * PiMrad * PiMrad - 4 * p) \div 40)

\* Math.sin and Math.cos of an angle in 1/1000 rad, in 1/1000.
sin(a) ==
    LET x == a % (2 * PiMrad)
    IN  IF x <= PiMrad THEN SinHalfTurn(x) ELSE 0 - SinHalfTurn(x - PiMrad)

cos(a) == sin(a + PiMrad \div 2)

P(px, py, pz) == [x |-> px, y |-> py, z |-> pz]

\* Variant: the loop stops one particle short.
indices_OneShort(n) == 1..(n - 1)

\* `for (let i = 0; i < n; i++)`, the particles counted from 1.
indices(n) == 1..n

\* A sample of main-cloud particles (tree point, scatter point).  The two
\* points of a particle lie within 0.26 of each other, which keeps squared
\* distances within 32-bit integers.
ParticlePool ==
    << [tree |-> P(125000, 0, 0),       scatter |-> P(130000, 20000, -5000)],
       [tree |-> P(250000, -300000, 0), scatter |-> P(245000, -290000, 15000)],
       [tree |-> P(0, 150000, 62500),   scatter |-> P(5000, 140000, 60000)] >>

\* Scatter points of the spiral band and of the star, and star base points.
SpiralScatterPool ==
    << P(100000, -200000, 300000), P(-500000, 100000, 0), P(0, 600000, -100000) >>
StarPool ==
    << [base |-> P(10000, 320000, 0),  scatter |-> P(-300000, 560000, 200000)],
       [base |-> P(0, 321000, 45000),  scatter |-> P(400000, 400000, -100000)] >>

Pick(pool, i) == pool[((i - 1) % Len(pool)) + 1]

\* The formation tables, for the given particle counts.
BuildTables(particleCount, spiralCount, starCount) ==
    [ particleCount |-> particleCount,
      spiralCount |-> spiralCount,
      starCount |-> starCount,
      treePositions |-> [i \in 1..particleCount |-> Pick(ParticlePool, i).tree],
      scatterPositions |-> [i \in 1..particleCount |-> Pick(ParticlePool, i).scatter],
      spiralScatterCoords |-> [i \in 1..spiralCount |-> Pick(SpiralScatterPool, i)],
      starBasePositions |-> [i \in 1..starCount |-> Pick(StarPool, i).base],
      starScatterPositions |-> [i \in 1..starCount |-> Pick(StarPool, i).scatter] ]

\* Variant: the height is not brought back below the top of the tree.
spiralTreePosition_NoWrap(i, n, t) ==
    LET baseTy == RoundDiv(i * treeHeight, n) - treeHeight \div 2
        flowOffset == (t * spiralSpeed) % treeHeight
        ty0 == baseTy + flowOffset
        ty == ty0
        normH == RoundDiv(ty + treeHeight \div 2, treeHeight \div 10000)
        angle == RoundDiv(normH * 2 * PiMrad * spiralTurns, 10000)
                     + RoundDiv(t * spiralSpeed, 100)
        r == RoundDiv((10000 - normH) * ((treeRadius * 115) \div 10000), 100) + 20000
    IN  P(RoundDiv(cos(angle) * r, 1000), ty, RoundDiv(sin(angle) * r, 1000))

\* Spiral particle i (counted from 0) of n in TREE mode at clock time t.
spiralTreePosition(i, n, t) ==
    LET baseTy == RoundDiv(i * treeHeight, n) - treeHeight \div 2
        flowOffset == (t * spiralSpeed) % treeHeight
        ty0 == baseTy + flowOffset
        ty == IF ty0 > treeHeight \div 2 THEN ty0 - treeHeight ELSE ty0
        normH == RoundDiv(ty + treeHeight \div 2, treeHeight \div 10000)
        angle == RoundDiv(normH * 2 * PiMrad * spiralTurns, 10000)
                     + RoundDiv(t * spiralSpeed, 100)
        r == RoundDiv((10000 - normH) * ((treeRadius * 115) \div 10000), 100) + 20000
    IN  P(RoundDiv(cos(angle) * r, 1000), ty, RoundDiv(sin(angle) * r, 1000))

\* Variant: in SCATTER the band keeps flowing on the tree.
spiralPosition_KeepsFlowing(m, i, n, t, tb) == spiralTreePosition(i - 1, n, t)

\* Position written for spiral particle i (counted from 1) by a tick.
spiralPosition(m, i, n, t, tb) ==
    IF m = "TREE" THEN spiralTreePosition(i - 1, n, t)
    ELSE tb.spiralScatterCoords[i]

\* Variant: the floating noise is left out.
particleTarget_NoNoise(m, i, t, tb) ==
    IF m = "TREE" THEN tb.treePositions[i] ELSE tb.scatterPositions[i]

\* Target of main-cloud particle i in a tick at clock time t.
particleTarget(m, i, t, tb) ==
    IF m = "TREE" THEN tb.treePositions[i]
    ELSE LET s == tb.scatterPositions[i]
         IN  [s EXCEPT !.y = @ + RoundDiv(sin(t + RoundDiv(s.x, 100)) * NoiseAmplitude, 1000)]

starTarget(m, i, tb) ==
    IF m = "SCATTER" THEN tb.starScatterPositions[i] ELSE tb.starBasePositions[i]

lerp3(p, q, t) == P(lerp(p.x, q.x, t), lerp(p.y, q.y, t), lerp(p.z, q.z, t))

\* Variant: the idle rotation is scaled by the time since the last tick
\* (0.002 per 16 ms).
idleRotation_TimeScaled(r, delta) == r + RoundDiv(IdleStep * delta, 16)

\* "Idle rotation": a fixed step per tick; delta is computed by the tick
\* and not used.
idleRotation(r, delta) == r + IdleStep

\* Variant: the hand branch is taken whatever handDetected says.
rotation_AlwaysHand(r, detected, hx, delta) ==
    lerp(r, r + RoundDiv(hx * 5, 100), 10)

\* 4. "Update Rotation".
rotation(r, detected, hx, delta) ==
    IF detected THEN lerp(r, r + RoundDiv(hx * 5, 100), 10)
    ELSE idleRotation(r, delta)

\* The stall heuristic.  watched says whether the model follows it;
\* buffering is _videoBuffering; ahead is videoEl.currentTime -
\* _lastVideoTime and since is performance.now() - _lastVideoTimeUpdate,
\* both in ms and kept only up to one past the threshold they are compared
\* with; moved says that the playback time has changed since the last
\* 'timeupdate' event.
StallEpsilon == 30
StallTimeout == 750
StallInit == [watched |-> TRUE, buffering |-> FALSE, ahead |-> 0, since |-> 0,
              moved |-> FALSE]

UpTo(n, limit) == IF n > limit THEN limit + 1 ELSE n

showVideoLoading(st) == IF st.watched THEN [st EXCEPT !.buffering = TRUE] ELSE st
hideVideoLoading(st) == IF st.watched THEN [st EXCEPT !.buffering = FALSE] ELSE st

\* The heuristic as a tick runs it, given videoEl.paused.
stallTick(st, paused) ==
    IF ~st.watched \/ paused THEN st
    ELSE IF st.ahead > StallEpsilon
         THEN LET seen == [st EXCEPT !.ahead = 0, !.since = 0]
              IN  IF st.buffering THEN hideVideoLoading(seen) ELSE seen
         ELSE IF st.since > StallTimeout THEN showVideoLoading(st) ELSE st

\* audioEl.volume, in 1/10000: the element's default, the nominal level of
\* the music, the distance within which the fade snaps to its target, and
\* the fraction of the distance covered by one step, in percent.
FullVolume == 10000
MusicVolume == 5000
FadeSnap == 100
FadeLerpPct == 5

\* "If video is playing, mute music. Else play music."
targetVol(playing) == IF playing THEN 0 ELSE MusicVolume

\* Variant: the fade never snaps to its target.
fadeAudio_NoSnap(current, targetVolume) ==
    current + RoundDiv((targetVolume - current) * FadeLerpPct, 100)

\* fadeAudio: audioEl.volume after the call.
fadeAudio(current, targetVolume) ==
    LET diff == targetVolume - current
    IN  IF diff > FadeSnap \/ -diff > FadeSnap
        THEN current + RoundDiv(diff * FadeLerpPct, 100)
        ELSE targetVolume

\* Variant: the next invocation is requested by animate's last statement,
\* which a tick that throws does not reach.
pendingAfter_ScheduledLast(n, threw) == IF threw THEN n - 1 ELSE (n - 1) + 1

\* The invocations of animate that are due after one of the n due has run:
\* its first statement, `requestAnimationFrame(animate)`, requests the next
\* one, whether or not a later statement of the tick throws.
pendingAfter(n, threw) == (n - 1) + 1

\* The scene as the module builds it.
SceneBuilt(tb) ==
    [ observed |-> TRUE,
      ticks |-> 0,
      time |-> 0,
      delta |-> 0,
      rotY |-> 0,
      pending |-> 1,
      heard |-> TRUE,
      volume |-> FullVolume,
      stall |-> StallInit,
      positions |-> tb.treePositions,
      spiralPositions |-> [i \in 1..tb.spiralCount |->
                              spiralTreePosition(i - 1, tb.spiralCount, 0)],
      starPositions |-> tb.starBasePositions ]

\* "2. Audio Fading": the music's volume after a tick, where the model
\* follows the fade (s.heard).
VolumeTick(s, playing) ==
    IF s.heard THEN fadeAudio(s.volume, targetVol(playing)) ELSE s.volume

\* The scene after one tick that found the clock advanced by delta.
SceneTick(s, tb, delta, m, detected, hx, playing, paused) ==
    IF ~s.observed THEN [s EXCEPT !.volume = VolumeTick(s, playing),
                                  !.stall = stallTick(@, paused)]
    ELSE LET t == s.time + delta
         IN  [ observed |-> TRUE,
               ticks |-> s.ticks + 1,
               time |-> t,
               delta |-> delta,
               rotY |-> rotation(s.rotY, detected, hx, delta),
               pending |-> pendingAfter(s.pending, FALSE),
               heard |-> s.heard,
               volume |-> VolumeTick(s, playing),
               stall |-> stallTick(s.stall, paused),
               positions |-> [i \in indices(tb.particleCount) |->
                   lerp3(s.positions[i], particleTarget(m, i, t, tb), LerpSpeedPct)],
               spiralPositions |-> [i \in indices(tb.spiralCount) |->
                   spiralPosition(m, i, tb.spiralCount, t, tb)],
               starPositions |-> [i \in indices(tb.starCount) |->
                   lerp3(s.starPositions[i], starTarget(m, i, tb), 2 * LerpSpeedPct)] ]

\* The scene once the module has been evaluated: its last statement runs
\* animate() once, which starts the clock.  observed says whether the model
\* follows the later writes of animate() to the scene; ticks counts them.
SceneInit(observed, tb) ==
    [SceneTick(SceneBuilt(tb), tb, 0, "TREE", FALSE, 0, FALSE, TRUE)
        EXCEPT !.observed = observed, !.ticks = 0, !.heard = FALSE,
               !.stall.watched = FALSE]

\* Variant: capture is started while the module is evaluated.
CameraInit_AutoStart == [stream |-> TRUE, scheduled |-> FALSE, sending |-> TRUE,
                         settled |-> "none", stopped |-> FALSE]

\* mediaCamera after construction: no stream, no frame callback scheduled,
\* no send in flight.  settled is how the last hands.send ended, stopped
\* records that stop() has returned.
CameraInit == [stream |-> FALSE, scheduled |-> FALSE, sending |-> FALSE,
               settled |-> "none", stopped |-> FALSE]

\* Milliseconds between two ticks.
Deltas == {1250, 2500}

(***************************************************************************)
(* Initial state: the module has been evaluated, the overlay is showing.   *)
(***************************************************************************)
InitState(observed) ==
    /\ mode = "TREE"
    /\ isPlayingVideo = FALSE
    /\ handDetected = FALSE
    /\ handX = 0
    /\ gesture = "NONE"
    /\ videoOpacity = 0
    /\ prevMode = "TREE"
    /\ userInteracted = FALSE
    /\ started = FALSE
    /\ startPc = "idle"
    /\ hands = FALSE
    /\ running = FALSE
    /\ videoEl = VideoInit
    /\ lastOp = Op("init", "", NoArg)
    /\ calls = <<>>
    /\ modeLeftPrev = FALSE
    /\ loaded = FALSE
    /\ mediaCamera = CameraInit
    /\ tables = BuildTables(ParticleCount, SpiralCount, StarCount)
    /\ scene = SceneInit(observed, tables)

Init == InitState(FALSE)
InitScene == InitState(TRUE)

(***************************************************************************)
(* The window 'load' listener: it tries to start the music at once.  A     *)
(* load event that comes after the first click is not followed (it would   *)
(* repeat the request for the music and nothing else).                     *)
(***************************************************************************)
WindowLoad ==
    /\ ~loaded
    /\ ~started
    /\ loaded' = TRUE
    /\ calls' = <<"audioPlayLoad">>
    /\ lastOp' = Op("windowLoad", "", NoArg)
    /\ UNCHANGED <<STATEvars, prevMode, startVars, videoEl, modeLeftPrev,
                   mediaCamera, sceneVars>>

(***************************************************************************)
(* handleOverlayClick, one action per stretch between two awaits.          *)
(***************************************************************************)
\* The events whose listener is handleOverlayClick: the overlay's 'click'
\* and the document's 'user-start'.
StartEvents == {"click", "user-start"}

\* Variant: the guard never finds the sequence started.
alreadyStarted_Never(s) == FALSE

\* `if (started) return;`
alreadyStarted(s) == s

\* Up to `await initMediaPipeHands()`; a later click returns at once.
HandleOverlayClick ==
    /\ \E ev \in StartEvents :
          lastOp' = Op("handleOverlayClick",
                       IF alreadyStarted(started) THEN "returned" ELSE "entered", ev)
    /\ calls' = <<>>
    /\ IF alreadyStarted(started)
       THEN UNCHANGED <<userInteracted, started, startPc, loaded>>
       ELSE /\ started' = TRUE
            /\ loaded' = TRUE
            /\ userInteracted' = TRUE
            /\ startPc' = "awaitHands"
    /\ UNCHANGED <<STATEvars, prevMode, hands, running, videoEl, modeLeftPrev,
                   mediaCamera, sceneVars>>

\* initMediaPipeHands resolves: onHandsResults is registered, and
\* mediaCamera.start() runs up to `await getUserMedia`.
HandsLoaded ==
    /\ startPc = "awaitHands"
    /\ hands' = TRUE
    /\ startPc' = "awaitCamera"
    /\ lastOp' = Op("handleOverlayClick", "", NoArg)
    /\ calls' = <<>>
    /\ UNCHANGED <<STATEvars, prevMode, userInteracted, started, running,
                   videoEl, modeLeftPrev, loaded, mediaCamera, sceneVars>>

\* initMediaPipeHands throws: the catch block writes the diagnostic and returns.
HandsFailed ==
    /\ startPc = "awaitHands"
    /\ startPc' = "failed"
    /\ lastOp' = Op("handleOverlayClick", "", NoArg)
    /\ calls' = <<>>
    /\ UNCHANGED <<STATEvars, prevMode, userInteracted, started, hands, running,
                   videoEl, modeLeftPrev, loaded, mediaCamera, sceneVars>>

\* getUserMedia resolves: the stream is stored and start() goes on to
\* `await inputVideo.play()`.
CameraGranted ==
    /\ startPc = "awaitCamera"
    /\ startPc' = "awaitInputVideo"
    /\ mediaCamera' = [mediaCamera EXCEPT !.stream = TRUE]
    /\ lastOp' = Op("handleOverlayClick", "", NoArg)
    /\ calls' = <<>>
    /\ UNCHANGED <<STATEvars, prevMode, userInteracted, started, hands, running,
                   videoEl, modeLeftPrev, loaded, sceneVars>>

\* The rest of handleOverlayClick after mediaCamera.start() has settled:
\* unmute the video and request playback, then start the music.
StartPlayback(cameraOk) ==
    /\ running' = (running \/ cameraOk)
    /\ mediaCamera' = [mediaCamera EXCEPT !.sending = @ \/ cameraOk]
    /\ \E allowed \in BOOLEAN : videoEl' = Play(videoEl, "plain", allowed)
    /\ calls' = <<"playStart", "audioPlayStart">>
    /\ startPc' = "done"
    /\ lastOp' = Op("handleOverlayClick", IF cameraOk THEN "camera" ELSE "noCamera", NoArg)
    /\ scene' = [scene EXCEPT !.volume = MusicVolume]
    /\ UNCHANGED <<STATEvars, prevMode, userInteracted, started, hands, modeLeftPrev,
                   loaded, tables>>

\* inputVideo.play() resolves: running = true, and frameLoop() sends the
\* first frame.
CameraStarted ==
    /\ startPc = "awaitInputVideo"
    /\ StartPlayback(TRUE)

\* getUserMedia or inputVideo.play() rejects: start() rethrows, the caller
\* writes the diagnostic and goes on.
CameraFailed ==
    /\ startPc \in {"awaitCamera", "awaitInputVideo"}
    /\ StartPlayback(FALSE)

(***************************************************************************)
(* onHandsResults(results), called by the classifier for a frame that      *)
(* frameLoop sent.                                                         *)
(***************************************************************************)
onHandsResults(results) ==
    /\ hands
    /\ mediaCamera.sending
    /\ handDetected' = DetectedAfter(HandPresent(results), handDetected)
    /\ IF HandPresent(results)
       THEN LET landmarks == results.multiHandLandmarks[1]
                m  == Measured[results]
                oc == OpenClosed(m.avgDist4, gesture, mode)
                pinch == isPinch(m.pinchDist)
                start == StartsVideo(pinch, oc.mode, videoOpacity, isPlayingVideo)
            IN  /\ handX' = (landmarks[0].x - 500) * 2
                /\ mode' = oc.mode
                /\ gesture' = IF pinch THEN "PINCH" ELSE oc.gesture
                /\ isPlayingVideo' = (isPlayingVideo \/ start)
                /\ IF start
                   THEN /\ \E allowed \in BOOLEAN :
                              videoEl' = Play(videoEl, "plain", allowed)
                        /\ calls' = <<"playPinch">>
                   ELSE /\ videoEl' = videoEl
                        /\ calls' = <<>>
                /\ modeLeftPrev' = (modeLeftPrev \/ oc.mode # prevMode)
                /\ lastOp' = Op("onHandsResults", "hand", m)
       ELSE /\ calls' = <<>>
            /\ lastOp' = Op("onHandsResults", "none", NoArg)
            /\ UNCHANGED <<mode, isPlayingVideo, handX, gesture, videoEl, modeLeftPrev>>
    /\ UNCHANGED <<videoOpacity, prevMode, startVars, loaded, mediaCamera, sceneVars>>

(***************************************************************************)
(* animate(): one tick.                                                    *)
(***************************************************************************)
\* Variant: the stop is not restricted to TREE mode.
StopInTree_AnyMode(m, playing) == playing

\* 1. "Stop video if playing".
StopInTree(m, playing) == m = "TREE" /\ playing
\* Variant: the plane is shown in TREE mode and hidden in SCATTER mode.
targetOpacity_Swapped(m) == IF m = "SCATTER" THEN 0 ELSE videoDisplayOpacity

\* 3. Video plane opacity.
targetOpacity(m) == IF m = "SCATTER" THEN videoDisplayOpacity ELSE 0

\* Variant: the side effects run on every tick spent away from the
\* recorded mode or in SCATTER (level-triggered).
ModeChanged_Level(m, prev) == m # prev \/ m = "SCATTER"

\* Variant: the comparison is made against the current mode itself.
ModeChanged_Never(m, prev) == m # m

\* Variant: the enter-SCATTER play is always muted.
mutedAtEdge_Always(interacted) == TRUE

\* videoEl.muted as the enter-SCATTER edge sets it before asking to play:
\* "mute only if the user hasn't interacted yet".
mutedAtEdge(interacted) == ~interacted

\* "If mode changed": the mode differs from the one recorded by the last tick.
ModeChanged(m, prev) == m # prev

\* Variant: the mode is recorded only when the play request was accepted.
PrevModeAfter_OnSuccess(m, prev, allowed) ==
    IF ModeChanged(m, prev) /\ (m = "SCATTER" => allowed) THEN m ELSE prev

\* `_prevMode = STATE.mode`, the last statement of the mode-change block,
\* after the try/catch around the play request.
PrevModeAfter(m, prev, allowed) == IF ModeChanged(m, prev) THEN m ELSE prev

animate(delta) ==
    /\ scene.pending > 0
    /\ Len(videoEl.tasks) < MaxVideoTasks
    /\ scene.observed => scene.ticks < MaxTicks
    /\ \E allowed \in BOOLEAN :
        LET stop == StopInTree(mode, isPlayingVideo)
            el1  == IF stop THEN Pause(videoEl) ELSE videoEl
            c1   == IF stop THEN <<"pauseTree">> ELSE <<>>
            p1   == IF stop THEN FALSE ELSE isPlayingVideo
            edge == ModeChanged(mode, prevMode)
            enter == edge /\ mode = "SCATTER"
            el2  == IF enter THEN Play(el1, "edge", allowed) ELSE el1
            c2   == IF enter
                    THEN Append(c1, IF mutedAtEdge(userInteracted)
                                    THEN "playEdgeMuted" ELSE "playEdge")
                    ELSE c1
            leave == edge /\ mode # "SCATTER" /\ ~el2.paused
            el3  == IF leave THEN Pause(el2) ELSE el2
            c3   == IF leave THEN Append(c2, "pauseEdge") ELSE c2
            p3   == IF leave THEN FALSE ELSE p1
        IN  /\ isPlayingVideo' = p3
            /\ videoEl' = el3
            /\ calls' = c3
            /\ videoOpacity' = lerp(videoOpacity, targetOpacity(mode), OpacityLerpPct)
            /\ prevMode' = PrevModeAfter(mode, prevMode, allowed)
            /\ scene' = SceneTick(scene, tables, delta, mode, handDetected, handX,
                                  p1, el3.paused)
    /\ modeLeftPrev' = FALSE
    /\ lastOp' = Op("animate", IF ModeChanged(mode, prevMode) THEN "changed"
                               ELSE IF modeLeftPrev THEN "toggled" ELSE "held",
                         NoArg)
    /\ UNCHANGED <<mode, handDetected, handX, gesture, startVars, loaded,
                   mediaCamera, tables>>

\* A tick in which an exception is raised: the invocation has requested the
\* next one and is abandoned before it writes any of the program's state.
animateThrows ==
    /\ scene.pending > 0
    /\ scene' = [scene EXCEPT !.pending = pendingAfter(@, TRUE)]
    /\ calls' = <<>>
    /\ lastOp' = Op("animateThrew", "", NoArg)
    /\ UNCHANGED <<STATEvars, prevMode, startVars, videoEl, modeLeftPrev,
                   loaded, mediaCamera, tables>>

(***************************************************************************)
(* The video element's events and the program's listeners.                 *)
(***************************************************************************)
\* The element starts (or, after buffering, resumes) playing: it takes the
\* pending play promise and queues the 'playing' event.
VideoStartsPlaying ==
    /\ ~videoEl.paused
    /\ Len(videoEl.tasks) < MaxVideoTasks
    /\ videoEl' = [videoEl EXCEPT !.pending = "none", !.tasks = Append(@, "playing")]
    /\ lastOp' = Op("videoEl", "", NoArg)
    /\ calls' = <<>>
    /\ UNCHANGED <<STATEvars, prevMode, startVars, modeLeftPrev, loaded,
                   mediaCamera, sceneVars>>

\* Playback reaches the end of the video: the element pauses itself and
\* queues the 'pause' event.
VideoEnds ==
    /\ ~videoEl.paused
    /\ videoEl.pending = "none"
    /\ Len(videoEl.tasks) < MaxVideoTasks
    /\ videoEl' = Pause(videoEl)
    /\ lastOp' = Op("videoEl", "", NoArg)
    /\ calls' = <<>>
    /\ UNCHANGED <<STATEvars, prevMode, startVars, modeLeftPrev, loaded,
                   mediaCamera, sceneVars>>

\* Variant: the 'pause' listener also sends the mode back to TREE.
Dispatch_ResetsMode(kind, playing) ==
    /\ videoEl.tasks # <<>>
    /\ Head(videoEl.tasks) = kind
    /\ videoEl' = [videoEl EXCEPT !.tasks = Tail(@)]
    /\ isPlayingVideo' = playing
    /\ mode' = IF kind = "pause" THEN "TREE" ELSE mode
    /\ calls' = <<>>
    /\ scene' = IF kind = "playing"
                THEN [scene EXCEPT !.stall = hideVideoLoading(@)] ELSE scene
    /\ UNCHANGED <<handDetected, handX, gesture, videoOpacity,
                   prevMode, startVars, modeLeftPrev, loaded, mediaCamera, tables>>

Dispatch(kind, playing) ==
    /\ videoEl.tasks # <<>>
    /\ Head(videoEl.tasks) = kind
    /\ videoEl' = [videoEl EXCEPT !.tasks = Tail(@)]
    /\ isPlayingVideo' = playing
    /\ calls' = <<>>
    /\ scene' = IF kind = "playing"
                THEN [scene EXCEPT !.stall = hideVideoLoading(@)] ELSE scene
    /\ UNCHANGED <<mode, handDetected, handX, gesture, videoOpacity,
                   prevMode, startVars, modeLeftPrev, loaded, mediaCamera, tables>>

\* videoEl 'playing' listener (and the then-handler of an edge promise
\* resolved with it, which writes the same value).
onPlaying ==
    /\ Dispatch("playing", TRUE)
    /\ lastOp' = Op("onPlaying", "", NoArg)

\* videoEl 'pause' listener.
onPause ==
    /\ Dispatch("pause", FALSE)
    /\ lastOp' = Op("onPause", "", NoArg)

\* then-handler of the enter-SCATTER play promise.
onEdgePlayResolved ==
    /\ Dispatch("resolveEdge", TRUE)
    /\ lastOp' = Op("onEdgePlayResolved", "", NoArg)

(***************************************************************************)
(* mediaCamera's frame loop and stop().                                    *)
(***************************************************************************)
\* The rest of a frameLoop iteration once hands.send has settled: a
\* rejection is caught and logged, then the next iteration is requested.
SendSettled(how) ==
    /\ mediaCamera.sending
    /\ mediaCamera' = [mediaCamera EXCEPT !.sending = FALSE, !.scheduled = TRUE,
                                          !.settled = how]
    /\ lastOp' = Op("frameLoop", how, NoArg)
    /\ calls' = <<>>
    /\ UNCHANGED <<STATEvars, prevMode, startVars, videoEl, modeLeftPrev, loaded,
                   sceneVars>>

SendResolved == SendSettled("resolved")
SendRejected == SendSettled("rejected")

\* Variant: the test of running is inverted.
SendsFrame_Inverted(isRunning) == ~isRunning

\* `if (!running) return;` at the head of an iteration.
SendsFrame(isRunning) == isRunning

\* The scheduled frame callback runs: frameLoop up to `await hands.send`.
frameLoop ==
    /\ mediaCamera.scheduled
    /\ mediaCamera' = [mediaCamera EXCEPT !.scheduled = FALSE,
                                          !.sending = SendsFrame(running)]
    /\ lastOp' = Op("frameLoop", IF SendsFrame(running) THEN "send" ELSE "return", NoArg)
    /\ calls' = <<>>
    /\ UNCHANGED <<STATEvars, prevMode, startVars, videoEl, modeLeftPrev, loaded,
                   sceneVars>>

\* mediaCamera.stop(): clears running, cancels the scheduled callback and
\* stops the tracks of the stream it holds.
stop ==
    /\ running' = FALSE
    /\ mediaCamera' = [mediaCamera EXCEPT !.scheduled = FALSE, !.stream = FALSE,
                                          !.stopped = TRUE]
    /\ lastOp' = Op("stop", "", NoArg)
    /\ calls' = <<>>
    /\ UNCHANGED <<STATEvars, prevMode, userInteracted, started, startPc, hands,
                   videoEl, modeLeftPrev, loaded, sceneVars>>

\* Every step of the program but the gesture callback and the frame loop.
Events ==
    \/ WindowLoad
    \/ HandleOverlayClick
    \/ HandsLoaded
    \/ HandsFailed
    \/ CameraGranted
    \/ CameraStarted
    \/ CameraFailed
    \/ \E delta \in Deltas : animate(delta)
    \/ VideoStartsPlaying
    \/ VideoEnds
    \/ onPlaying
    \/ onPause
    \/ onEdgePlayResolved

Next ==
    \/ Events
    \/ \E results \in Results : onHandsResults(results)

Spec == Init /\ [][Next]_vars

\* The program with its frame loop.
NextScene ==
    \/ Events
    \/ \E results \in SceneResults : onHandsResults(results)
    \/ SendResolved
    \/ SendRejected
    \/ frameLoop
    \/ animateThrows

SpecScene == InitScene /\ [][NextScene]_vars

\* The program and a caller of mediaCamera.stop().
NextStop ==
    \/ NextScene
    \/ stop

SpecStop == InitScene /\ [][NextStop]_vars

(***************************************************************************)
(* The audio fade over any number of ticks.  SpecFade starts in the middle *)
(* of a session that is at rest: the start sequence is over, the hand has  *)
(* left the frame, the video is either playing in SCATTER mode or paused   *)
(* in TREE mode, the plane's opacity has stopped moving, and the music     *)
(* is at any volume; ticks are then the only steps, so that isPlayingVideo *)
(* stays as it is, and the volume is followed (scene.heard).  The browser  *)
(* runs the frame callback that every tick requests, which is the          *)
(* fairness of the tick.                                                   *)
(***************************************************************************)
Volumes == 0..FullVolume

\* The opacity at which the ticks of mode m stop moving the plane: the
\* first value, on the way from the other mode's, that a tick leaves as
\* it is.
RestOpacity(m) ==
    LET Rests(o) == lerp(o, targetOpacity(m), OpacityLerpPct) = o
        Range == 0..videoDisplayOpacity
    IN  IF m = "SCATTER"
        THEN CHOOSE o \in Range : Rests(o) /\ \A q \in Range : q < o => ~Rests(q)
        ELSE CHOOSE o \in Range : Rests(o) /\ \A q \in Range : q > o => ~Rests(q)

\* All but the scene of a session at rest, with the video playing or not.
AtRest(playing) ==
    /\ mode = (IF playing THEN "SCATTER" ELSE "TREE")
    /\ isPlayingVideo = playing
    /\ handDetected = FALSE
    /\ handX = 400
    /\ gesture = (IF playing THEN "OPEN" ELSE "CLOSED")
    /\ videoOpacity = RestOpacity(mode)
    /\ prevMode = mode
    /\ userInteracted = TRUE
    /\ started = TRUE
    /\ startPc = "done"
    /\ hands = TRUE
    /\ running = TRUE
    /\ videoEl = [VideoInit EXCEPT !.paused = ~playing]
    /\ lastOp = Op("init", "", NoArg)
    /\ calls = <<>>
    /\ modeLeftPrev = FALSE
    /\ loaded = TRUE
    /\ mediaCamera = [CameraInit EXCEPT !.stream = TRUE, !.sending = TRUE]
    /\ tables = BuildTables(ParticleCount, SpiralCount, StarCount)

InitFade ==
    \E playing \in BOOLEAN, v \in Volumes :
        /\ AtRest(playing)
        /\ scene = [SceneInit(FALSE, tables) EXCEPT !.heard = TRUE, !.volume = v]

NextFade == \E delta \in Deltas : animate(delta)

SpecFade == InitFade /\ [][NextFade]_vars /\ WF_vars(NextFade)

(***************************************************************************)
(* The stall heuristic.  SpecStall starts in a session at rest with the    *)
(* video playing and follows the heuristic (scene.stall.watched): ticks,   *)
(* the playback position advancing, wall-clock time passing while it does  *)
(* not, and the 'timeupdate', 'waiting' and 'stalled' listeners, in any    *)
(* order.  The tick is weakly fair, for the reason given for SpecFade.     *)
(***************************************************************************)
\* Milliseconds of playback between two steps of the model, and of
\* wall-clock time spent without playback.
PlaybackSteps == {20, 250}
StallSteps == {400}

StallStep(name, c, st) ==
    /\ ~videoEl.paused
    /\ scene.stall.watched
    /\ scene' = [scene EXCEPT !.stall = st]
    /\ lastOp' = Op(name, c, NoArg)
    /\ calls' = <<>>
    /\ UNCHANGED <<STATEvars, prevMode, startVars, videoEl, modeLeftPrev,
                   loaded, mediaCamera, tables>>

\* The video plays on: the playback position and the wall clock advance.
VideoAdvances ==
    \E step \in PlaybackSteps :
        StallStep("videoAdvances", "",
                  [scene.stall EXCEPT !.ahead = UpTo(@ + step, StallEpsilon),
                                      !.since = UpTo(@ + step, StallTimeout),
                                      !.moved = TRUE])

\* The video is short of data: the wall clock advances, the position not.
VideoStalls ==
    \E dt \in StallSteps :
        StallStep("videoStalls", "",
                  [scene.stall EXCEPT !.since = UpTo(@ + dt, StallTimeout)])

\* videoEl 'timeupdate' listener, after the position has changed.
onTimeupdate ==
    /\ scene.stall.moved
    /\ StallStep("onTimeupdate", "",
                 [scene.stall EXCEPT !.ahead = 0, !.since = 0, !.moved = FALSE])

\* videoEl 'waiting' and 'stalled' listeners.
onWaiting ==
    \E ev \in {"waiting", "stalled"} :
        StallStep("onWaiting", ev, showVideoLoading(scene.stall))

InitStall ==
    /\ AtRest(TRUE)
    /\ scene = [SceneInit(FALSE, tables) EXCEPT !.stall.watched = TRUE]

NextStall ==
    \/ \E delta \in Deltas : animate(delta)
    \/ VideoAdvances
    \/ VideoStalls
    \/ onTimeupdate
    \/ onWaiting

SpecStall == InitStall /\ [][NextStall]_vars
                 /\ WF_vars(\E delta \in Deltas : animate(delta))

(***************************************************************************)
(* Properties.                                                             *)
(***************************************************************************)
IsPlayCall(c) == c \in {"playStart", "playPinch", "playEdge", "playEdgeMuted"}
IsPauseCall(c) == c \in {"pauseTree", "pauseEdge"}
CallCount(cs, c) == Cardinality({i \in DOMAIN cs : cs[i] = c})
NoPlay(cs) == \A i \in DOMAIN cs : ~IsPlayCall(cs[i])
NoPause(cs) == \A i \in DOMAIN cs : ~IsPauseCall(cs[i])

\* The last step was onHandsResults with a hand / with no hand.
HandStep(op) == op.op = "onHandsResults" /\ op.case = "hand"
NoHandStep(op) == op.op = "onHandsResults" /\ op.case = "none"
PinchStep(op) == HandStep(op) /\ op.arg.pinchDist < 50

\* C1: for every hand-present callback, avgDist < 0.25 sets CLOSED and TREE,
\* avgDist > 0.35 sets OPEN and SCATTER, and 0.25 <= avgDist <= 0.35 leaves
\* mode as it was and the open/closed step leaves gesture as it was; the
\* callback ends with the gesture of that step unless the same snapshot is a
\* pinch, which then writes PINCH over it.
C1_GestureThresholds ==
    [][HandStep(lastOp') =>
        LET a4 == lastOp'.arg.avgDist4
            want == IF a4 < 1000 THEN [gesture |-> "CLOSED", mode |-> "TREE"]
                    ELSE IF a4 > 1400 THEN [gesture |-> "OPEN", mode |-> "SCATTER"]
                    ELSE [gesture |-> gesture, mode |-> mode]
        IN  /\ OpenClosed(a4, gesture, mode) = want
            /\ mode' = want.mode
            /\ gesture' = IF lastOp'.arg.pinchDist < 50 THEN "PINCH" ELSE want.gesture
      ]_vars

\* A callback has just classified a hand with avgDist 0.24975 as CLOSED and
\* thereby left SCATTER.
C1_Witness ==
    /\ HandStep(lastOp) /\ lastOp.arg.avgDist4 = 999
    /\ gesture = "CLOSED" /\ mode = "TREE" /\ prevMode = "SCATTER"

\* C9: a callback with no hand sets handDetected to false, leaves mode,
\* gesture, handX, isPlayingVideo and videoOpacity as they were and makes no
\* play or pause request.
C9_NoHandSticky ==
    [][NoHandStep(lastOp') =>
        /\ handDetected' = FALSE
        /\ UNCHANGED <<mode, gesture, handX, isPlayingVideo, videoOpacity, videoEl>>
        /\ calls' = <<>>
      ]_vars

\* The hand was lost while the video was playing in SCATTER, the hand
\* position and the gesture of the last hand still recorded.
C9_Witness ==
    /\ NoHandStep(lastOp)
    /\ ~handDetected /\ mode = "SCATTER" /\ gesture = "OPEN"
    /\ handX = 400 /\ isPlayingVideo /\ videoOpacity > 0

\* C10: a hand-present callback whose thumb-index distance is >= 0.05 makes
\* no pause request and leaves isPlayingVideo as it was; a pause is requested
\* only by a tick that runs with mode = TREE.
C10_OnlyTreeTickPauses ==
    [][/\ HandStep(lastOp') /\ lastOp'.arg.pinchDist >= 50 =>
            isPlayingVideo' = isPlayingVideo /\ calls' = <<>>
       /\ lastOp'.op = "onHandsResults" => NoPause(calls')
       /\ ~NoPause(calls') => lastOp'.op = "animate" /\ mode = "TREE"
      ]_vars

\* The pinch was released (thumb at 0.05) while the video was playing: it
\* still plays.
C10_Witness ==
    /\ HandStep(lastOp) /\ lastOp.arg.pinchDist = 50
    /\ mode = "SCATTER" /\ isPlayingVideo /\ ~videoEl.paused

\* C2, as claimed: a callback delivered while mode = TREE and classified
\* PINCH makes no play request and does not set isPlayingVideo, whatever its
\* fingertip spread and the current videoOpacity.
C2_PinchDeliveredInTreeNeverPlays ==
    [][PinchStep(lastOp') /\ mode = "TREE" =>
            NoPlay(calls') /\ (isPlayingVideo' => isPlayingVideo)
      ]_vars

\* C2, amended: a callback classified PINCH whose open/closed step leaves
\* mode = TREE makes no play request and leaves isPlayingVideo as it was,
\* whatever the videoOpacity; one delivered while mode = TREE with
\* avgDist > 0.35 has switched to SCATTER before the pinch is looked at, and
\* starts the video when videoOpacity > 0.8 and it is not playing yet.
C2_PinchInTreeNeverPlays ==
    [][PinchStep(lastOp') =>
        /\ mode' = "TREE" =>
              calls' = <<>> /\ isPlayingVideo' = isPlayingVideo /\ videoEl' = videoEl
        /\ mode = "TREE" /\ lastOp'.arg.avgDist4 > 1400
             /\ videoOpacity > 80 /\ ~isPlayingVideo =>
              calls' = <<"playPinch">> /\ isPlayingVideo'
      ]_vars

\* A pinch with the fingers in the dead zone arrived in TREE mode while the
\* video plane was still more than 0.8 opaque, and nothing was played.
C2_Witness ==
    /\ PinchStep(lastOp) /\ lastOp.arg.avgDist4 = 1000
    /\ mode = "TREE" /\ gesture = "PINCH" /\ videoOpacity > 80
    /\ ~isPlayingVideo /\ calls = <<>> /\ videoEl.paused

\* C3: a callback classified PINCH while videoOpacity <= 0.8 makes no play
\* request and leaves isPlayingVideo as it was, in either mode.
C3_PinchBelowGateNeverPlays ==
    [][PinchStep(lastOp') /\ videoOpacity <= 80 =>
            calls' = <<>> /\ isPlayingVideo' = isPlayingVideo /\ videoEl' = videoEl
      ]_vars

\* A pinch arrived in SCATTER mode with videoOpacity exactly 0.8 and the
\* video stopped: nothing was played.
C3_Witness ==
    /\ PinchStep(lastOp) /\ mode = "SCATTER" /\ videoOpacity = 80
    /\ ~isPlayingVideo /\ calls = <<>> /\ videoEl.paused

\* C4: with mode = SCATTER and videoOpacity > 0.8, a PINCH callback that
\* finds isPlayingVideo false sets it and makes one play request, one that
\* finds it true makes none; and while the mode stays SCATTER only the
\* 'pause' listener clears isPlayingVideo, so over a run of PINCH callbacks
\* with no pause event in between the video is started exactly once.
C4_PinchStartsOnce ==
    [][/\ PinchStep(lastOp') /\ mode' = "SCATTER" /\ videoOpacity > 80 =>
            /\ isPlayingVideo'
            /\ calls' = IF isPlayingVideo THEN <<>> ELSE <<"playPinch">>
       /\ isPlayingVideo /\ mode = "SCATTER" /\ mode' = "SCATTER"
            /\ lastOp'.op # "onPause" => isPlayingVideo'
      ]_vars

\* A further PINCH frame arrived while the video was already playing in
\* SCATTER mode with the gate open: no second play request.
C4_Witness ==
    /\ PinchStep(lastOp) /\ mode = "SCATTER" /\ videoOpacity > 80
    /\ isPlayingVideo /\ ~videoEl.paused /\ calls = <<>>

\* C5, as claimed: isPlayingVideo becomes true only when a play attempt has
\* succeeded (the 'playing' event, or the resolution of the play promise); a
\* play request that is rejected leaves it false.
C5_PlayingOnlyAfterSuccess ==
    [][~isPlayingVideo /\ isPlayingVideo' =>
            lastOp'.op \in {"onPlaying", "onEdgePlayResolved"}
      ]_vars

\* C6, as claimed: when the callbacks toggled the mode TREE -> SCATTER -> TREE
\* between two consecutive ticks, one enter-SCATTER play attempt and one
\* leave-SCATTER pause are fired (by the tick that closes the window, the
\* only place either is fired).
C6_ToggleInWindowFiresBoth ==
    [][lastOp'.op = "animate" /\ lastOp'.case = "toggled" /\ mode = "TREE" =>
            /\ CallCount(calls', "playEdge") = 1
            /\ CallCount(calls', "pauseTree") + CallCount(calls', "pauseEdge") = 1
      ]_vars

\* C6, amended: a tick that finds the mode equal to the recorded one fires
\* neither sequence, also after a toggle TREE -> SCATTER -> TREE inside its
\* window; a tick that finds it changed fires the sequence of that change
\* exactly once (one play attempt on entering SCATTER and no pause; on
\* leaving it no play attempt and at most one pause request) and records
\* the mode, so that it is not repeated while the mode is held.
C6_EdgeOncePerObservedChange ==
    [][lastOp'.op = "animate" =>
        /\ prevMode' = mode /\ mode' = mode
        /\ lastOp'.case \in {"held", "toggled"} <=> mode = prevMode
        /\ mode = prevMode =>
              CallCount(calls', "playEdge") = 0 /\ CallCount(calls', "pauseEdge") = 0
        /\ mode # prevMode /\ mode = "SCATTER" => calls' = <<"playEdge">>
        /\ mode # prevMode /\ mode = "TREE" =>
              NoPlay(calls') /\ Len(calls') <= 1
      ]_vars

\* A tick has just closed a window in which the mode went from TREE to
\* SCATTER and back, and requested nothing.
C6_Witness ==
    /\ lastOp.op = "animate" /\ lastOp.case = "toggled"
    /\ mode = "TREE" /\ prevMode = "TREE" /\ calls = <<>>

\* C7: a tick makes the enter-SCATTER play attempt if and only if it sees
\* mode = SCATTER while the recorded mode is TREE; a tick during which the
\* mode equals the recorded mode performs no edge side effect; every tick
\* leaves the mode recorded, so holding SCATTER yields one attempt.
C7_EdgePlayIffEnterScatter ==
    [][lastOp'.op = "animate" =>
        /\ CallCount(calls', "playEdge") =
              (IF mode = "SCATTER" /\ prevMode = "TREE" THEN 1 ELSE 0)
        /\ mode = prevMode => CallCount(calls', "pauseEdge") = 0
        /\ prevMode' = mode
      ]_vars

\* SCATTER has been held over several ticks (the video plane has faded in
\* past 0.2) and the last tick made no request.
C7_Witness ==
    /\ lastOp.op = "animate" /\ lastOp.case = "held"
    /\ mode = "SCATTER" /\ prevMode = "SCATTER" /\ videoOpacity > 20
    /\ calls = <<>>

\* C8, as claimed: after every tick that runs with mode = TREE the video
\* element is paused and isPlayingVideo is false.
C8_TreeTickLeavesVideoPaused ==
    lastOp.op = "animate" /\ mode = "TREE" => videoEl.paused /\ ~isPlayingVideo

\* Requests to play made on the music element.
IsAudioPlayCall(c) == c \in {"audioPlayLoad", "audioPlayStart"}
NoAudioPlay(cs) == \A i \in DOMAIN cs : ~IsAudioPlayCall(cs[i])

\* C11, as claimed: before handleOverlayClick has run, no step asks the
\* music or the video to play, and camera capture has not been started.
C11_NoPlaybackBeforeStart ==
    ~started =>
        /\ NoAudioPlay(calls) /\ NoPlay(calls)
        /\ ~running /\ ~mediaCamera.stream /\ ~mediaCamera.sending

\* C11, amended: before handleOverlayClick has run, no step asks the video
\* to play and camera capture has not been started (no stream, no frame
\* sent, the video still paused); the only request made before it goes to
\* the music, from the window 'load' listener, and the start sequence makes
\* its own requests after it.
C11_NoVideoOrCaptureBeforeStart ==
    /\ ~started =>
        /\ NoPlay(calls) /\ videoEl.paused
        /\ ~running /\ ~mediaCamera.stream /\ ~mediaCamera.sending
        /\ \A i \in DOMAIN calls : calls[i] = "audioPlayLoad"
    /\ (\E i \in DOMAIN calls : calls[i] = "audioPlayLoad") =>
        lastOp.op = "windowLoad"

\* C11 witness: the load listener has asked for the music before the start,
\* and the start sequence has then asked for the video and the music and
\* started capture.
C11_Witness ==
    /\ loaded /\ started
    /\ calls = <<"playStart", "audioPlayStart">>
    /\ running /\ mediaCamera.stream /\ mediaCamera.sending

\* A step made by a tick that the model follows on the scene.
TickStep == lastOp'.op = "animate" /\ scene'.ticks = scene.ticks + 1

\* The start sequence has ended without capture: the hand model failed to
\* load, or the camera could not be started.
Degraded == startPc = "failed" \/ (startPc = "done" /\ ~running)

\* C12: once the hand model has failed to load or the camera has failed to
\* start, no step is a gesture callback, mode stays TREE and handDetected
\* stays false, a tick can still run (as long as the model follows ticks),
\* and every tick adds the idle rotation step to the yaw.
C12_DegradesToIdleTree ==
    [][Degraded =>
          /\ Degraded'
          /\ lastOp'.op # "onHandsResults"
          /\ mode' = "TREE" /\ ~handDetected'
          /\ (scene.ticks < MaxTicks /\ Len(videoEl.tasks) < MaxVideoTasks)
                => ENABLED (\E delta \in Deltas : animate(delta))
          /\ TickStep => scene'.rotY = scene.rotY + IdleStep]_vars

\* C12 witness: the camera was granted but could not be started, and two
\* ticks have run since the module's own, each adding the idle step.
C12_Witness ==
    /\ startPc = "done" /\ ~running /\ mediaCamera.stream
    /\ lastOp.op = "animate"
    /\ scene.ticks = 2 /\ scene.rotY = 3 * IdleStep
    /\ mode = "TREE" /\ ~handDetected

\* C13: a frameLoop iteration whose hands.send rejects still requests the
\* next iteration; a requested iteration can always run, and while capture
\* is running it sends a frame, whatever happened to the sends before it.
C13_SendFailureKeepsLoop ==
    [][/\ (lastOp'.op = "frameLoop" /\ lastOp'.case = "rejected")
            => mediaCamera'.scheduled /\ running'
       /\ mediaCamera.scheduled => ENABLED frameLoop
       /\ (mediaCamera.scheduled /\ ~mediaCamera'.scheduled /\ running)
            => mediaCamera'.sending /\ lastOp' = Op("frameLoop", "send", NoArg)]_vars

\* C13 witness: a send was rejected, and the next iteration has sent a
\* frame again.
C13_Witness ==
    /\ mediaCamera.settled = "rejected"
    /\ lastOp = Op("frameLoop", "send", NoArg)
    /\ mediaCamera.sending /\ running

\* C14, as claimed: once stop() has returned, no stream is open and no
\* frame is sent any more (no step starts a send).
C14_StopReleasesCapture ==
    [][mediaCamera.stopped =>
          /\ ~mediaCamera'.stream
          /\ mediaCamera'.sending => mediaCamera.sending]_vars

\* C15: after every tick that runs with mode = SCATTER, each particle of
\* the spiral band is exactly at its precomputed scatter coordinate,
\* wherever the band's upward flow had put it before the tick.
C15_SpiralTeleport ==
    [][(TickStep /\ mode = "SCATTER") =>
          /\ DOMAIN scene'.spiralPositions = 1..tables.spiralCount
          /\ \A i \in 1..tables.spiralCount :
                scene'.spiralPositions[i] = tables.spiralScatterCoords[i]]_vars

\* C15 witness: the first tick after the flip to SCATTER has run, and the
\* band, which was flowing on the tree, is at its scatter coordinates.
C15_Witness ==
    /\ lastOp = Op("animate", "changed", NoArg)
    /\ mode = "SCATTER" /\ scene.ticks = 2
    /\ scene.spiralPositions = tables.spiralScatterCoords
    /\ scene.spiralPositions # SceneBuilt(tables).spiralPositions

\* Euclidean distance between two positions, rounded down.
Dist(p, q) ==
    SqrtBetween((p.x - q.x) * (p.x - q.x) + (p.y - q.y) * (p.y - q.y)
                    + (p.z - q.z) * (p.z - q.z), 0, 46340)

\* A tick takes a particle from p to q, 1 - lerpSpeed of the way it was
\* from t, and no farther from it: within the rounding of positions and
\* distances (2 units of 1/100000).
Contracts(p, q, t) ==
    /\ Dist(q, t) <= Dist(p, t)
    /\ 20 * Dist(q, t) - 19 * Dist(p, t) \in -40..40

\* The entry of the formation table of mode m for particle i.
TableTarget(m, i) ==
    IF m = "TREE" THEN tables.treePositions[i] ELSE tables.scatterPositions[i]

\* The point a tick at clock time t blends particle i towards: the table
\* entry, in SCATTER raised by sin(time + x) * 0.005.
BlendTarget(m, i, t) ==
    IF m = "TREE" THEN tables.treePositions[i]
    ELSE LET s == tables.scatterPositions[i]
         IN  P(s.x, s.y + RoundDiv(sin(t + RoundDiv(s.x, 100)) * NoiseAmplitude, 1000), s.z)

\* C16, as claimed: each tick multiplies the distance of every main-cloud
\* particle to the table entry of the current mode by 1 - lerpSpeed, so the
\* distance never grows.
C16_TickContractsToTable ==
    [][TickStep =>
          \A i \in 1..tables.particleCount :
              Contracts(scene.positions[i], scene'.positions[i],
                        TableTarget(mode, i))]_vars

\* C16, amended: each tick multiplies by 1 - lerpSpeed the distance of
\* every main-cloud particle to the point it blends towards, which is the
\* table entry in TREE and the table entry displaced vertically by
\* sin(time + x) * 0.005 in SCATTER; in TREE the distance to the table
\* entry therefore never grows.
C16_TickContractsToBlendTarget ==
    [][TickStep =>
          \A i \in 1..tables.particleCount :
              /\ Contracts(scene.positions[i], scene'.positions[i],
                           BlendTarget(mode, i, scene'.time))
              /\ mode = "TREE" =>
                    Contracts(scene.positions[i], scene'.positions[i],
                              tables.treePositions[i])]_vars

\* C16 witness: a SCATTER tick and then a TREE tick have moved a particle,
\* which is now between its two table entries.
C16_Witness ==
    /\ lastOp.op = "animate" /\ mode = "TREE" /\ scene.ticks = 2
    /\ Dist(scene.positions[1], tables.treePositions[1]) > 0
    /\ Dist(scene.positions[1], tables.scatterPositions[1]) > 0

\* C17, as claimed: with no hand detected (capture has not begun), the yaw
\* accumulated since the clock started is proportional to the time elapsed:
\* the ratio is the same before and after every tick.
C17_IdleYawProportionalToTime ==
    [][(TickStep /\ ~running /\ ~mediaCamera.sending /\ ~handDetected) =>
          (scene.rotY - IdleStep) * scene'.time
              = (scene'.rotY - IdleStep) * scene.time]_vars

\* C17, amended: a tick that finds no hand adds the idle step 0.002 to the
\* yaw whatever time has passed since the tick before, so the yaw
\* accumulated with no hand is 0.002 times the number of ticks.
C17_IdleYawPerTick ==
    [][/\ (TickStep /\ ~handDetected) => scene'.rotY = scene.rotY + IdleStep
       /\ (TickStep /\ ~running /\ ~mediaCamera.sending)
             => scene'.rotY = (scene'.ticks + 1) * IdleStep]_vars

\* C17 witness: two ticks with no hand, 1.25 s and 2.5 s after the tick before
\* them, have each added the idle step.
C17_Witness ==
    /\ lastOp.op = "animate" /\ ~handDetected /\ ~running
    /\ scene.ticks = 2 /\ scene.delta = 2500 /\ scene.time = 3750
    /\ scene.rotY = 3 * IdleStep

\* C18: after every tick the recorded previous mode is the current mode,
\* whether or not the tick's play request was accepted; and every tick
\* that finds the mode changed from TREE to SCATTER asks the video to
\* play, also when an earlier request failed and left the video paused.
C18_PrevModeRecordedAlways ==
    [][lastOp'.op = "animate" =>
          /\ prevMode' = mode' /\ mode' = mode
          /\ (prevMode = "TREE" /\ mode = "SCATTER")
                => CallCount(calls', "playEdge") = 1]_vars

\* C18 witness: a tick has found the mode changed to SCATTER again, after
\* an earlier tick in SCATTER, and its play request was refused: the video
\* is still paused and the mode is recorded all the same.
C18_Witness ==
    /\ lastOp = Op("animate", "changed", NoArg)
    /\ calls = <<"playEdge">>
    /\ videoEl.paused /\ videoEl.pending = "none" /\ videoEl.tasks = <<>>
    /\ ~isPlayingVideo
    /\ mode = "SCATTER" /\ prevMode = "SCATTER"
    /\ videoOpacity > 5

\* C19: a step that changes the mode is a gesture callback given a hand.
C19_ModeWrittenOnlyByCallback ==
    [][mode' # mode => HandStep(lastOp')]_vars

\* C19 witness: the mode is SCATTER and the listener of the video's
\* 'pause' event has just run, leaving it so.
C19_Witness ==
    /\ mode = "SCATTER"
    /\ lastOp.op = "onPause"
    /\ prevMode = "SCATTER"

\* C20: no step modifies the formation tables or the particle counts; the
\* live positions are changed by ticks only, and a tick leaves one live
\* position per particle of each table, under the same index.
C20_TablesNeverModified ==
    [][/\ tables' = tables
       /\ tables' = BuildTables(ParticleCount, SpiralCount, StarCount)
       /\ <<scene'.positions, scene'.spiralPositions, scene'.starPositions>>
              # <<scene.positions, scene.spiralPositions, scene.starPositions>>
             => lastOp'.op = "animate"
       /\ DOMAIN scene'.positions = DOMAIN tables.treePositions
       /\ DOMAIN scene'.positions = DOMAIN tables.scatterPositions
       /\ DOMAIN scene'.spiralPositions = DOMAIN tables.spiralScatterCoords
       /\ DOMAIN scene'.starPositions = DOMAIN tables.starBasePositions
       /\ DOMAIN scene'.starPositions = DOMAIN tables.starScatterPositions
       /\ Len(scene'.positions) = tables.particleCount
       /\ Len(scene'.spiralPositions) = tables.spiralCount
       /\ Len(scene'.starPositions) = tables.starCount]_vars

\* C20 witness: ticks in SCATTER have moved the main cloud, the band and
\* the star away from where they were built, and a gesture callback has
\* just run; the tables are as built.
C20_Witness ==
    /\ scene.ticks = 2 /\ HandStep(lastOp)
    /\ scene.positions # tables.treePositions
    /\ scene.spiralPositions = tables.spiralScatterCoords
    /\ scene.starPositions # tables.starBasePositions
    /\ tables = BuildTables(ParticleCount, SpiralCount, StarCount)

\* C21: the video plane's opacity stays between 0 and videoDisplayOpacity;
\* a tick in SCATTER mode never lowers it, a tick in TREE mode never
\* raises it, and no other operation writes it.
C21_OpacityBoundedMonotone ==
    [][/\ videoOpacity' \in 0..videoDisplayOpacity
       /\ videoOpacity' <= 100
       /\ (lastOp'.op = "animate" /\ mode = "SCATTER")
             => videoOpacity' >= videoOpacity
       /\ (lastOp'.op = "animate" /\ mode = "TREE")
             => videoOpacity' <= videoOpacity
       /\ lastOp'.op # "animate" => videoOpacity' = videoOpacity]_vars

\* C21 witness: a tick in TREE mode has lowered an opacity that ticks in
\* SCATTER mode had raised, and it is strictly inside the range.
C21_Witness ==
    /\ lastOp.op = "animate"
    /\ mode = "TREE" /\ prevMode = "TREE"
    /\ videoOpacity > 0 /\ videoOpacity < 83
    /\ videoOpacity % 5 # 0

\* C25: the mode is always TREE or SCATTER (TREE at startup); gesture NONE
\* and gesture CLOSED occur only in TREE mode and gesture OPEN only in
\* SCATTER mode; and a gesture other than NONE never becomes NONE again.
C25_ModeGestureCoupled ==
    /\ mode = "TREE" /\ gesture = "NONE"
    /\ [][/\ mode' \in {"TREE", "SCATTER"}
          /\ gesture' \in {"NONE", "CLOSED", "OPEN", "PINCH"}
          /\ gesture' \in {"NONE", "CLOSED"} => mode' = "TREE"
          /\ gesture' = "OPEN" => mode' = "SCATTER"
          /\ gesture # "NONE" => gesture' # "NONE"]_vars

\* C25 witness: a frame between the two thresholds, without a pinch, has
\* left the gesture PINCH in TREE mode, after a tick had recorded SCATTER.
C25_Witness ==
    /\ lastOp.op = "onHandsResults" /\ lastOp.case = "hand"
    /\ ~isClosed(lastOp.arg.avgDist4) /\ ~isOpen(lastOp.arg.avgDist4)
    /\ ~isPinch(lastOp.arg.pinchDist)
    /\ gesture = "PINCH" /\ mode = "TREE" /\ prevMode = "SCATTER"

C27_PlayOnlyInScatter ==
    [][~NoPlay(calls') => mode' = "SCATTER"]_vars

\* C28: an invocation of handleOverlayClick after the first one, by either
\* event, changes nothing and requests nothing, whether the first one is
\* still running, has finished or has failed; so the classifier is loaded,
\* the camera started and playback attempted at most once.
C28_StartRunsOnce ==
    [][/\ (lastOp'.op = "handleOverlayClick" /\ lastOp'.case = "entered")
             => ~started /\ startPc = "idle"
       /\ (lastOp'.op = "handleOverlayClick" /\ lastOp'.case = "returned")
             => /\ started /\ calls' = <<>>
                /\ UNCHANGED <<STATEvars, prevMode, startVars, videoEl,
                               modeLeftPrev, loaded, mediaCamera, sceneVars>>
       /\ started => started'
       /\ (startPc # startPc' /\ startPc' = "awaitHands") => startPc = "idle"
       /\ startPc \in {"done", "failed"} => startPc' = startPc
       /\ CallCount(calls', "playStart") > 0
             => startPc # "done" /\ startPc' = "done"]_vars

\* C28 witness: the start sequence failed at the classifier, and a later
\* 'user-start' event has invoked the handler again.
C28_Witness ==
    /\ lastOp = Op("handleOverlayClick", "returned", "user-start")
    /\ startPc = "failed" /\ ~hands /\ ~running

\* The height claimed for spiral particle i (counted from 1) of n at clock
\* time t: ((pct * treeHeight + time * spiralSpeed) mod treeHeight)
\* - treeHeight / 2.
ClaimedSpiralHeight(i, n, t) ==
    ((RoundDiv((i - 1) * treeHeight, n) + t * spiralSpeed) % treeHeight)
        - treeHeight \div 2

\* C24, as claimed: after every tick in TREE mode every spiral particle is
\* at the claimed height, at the instants where the height wraps too.
C24_SpiralHeightIsModulo ==
    [][(TickStep /\ mode = "TREE") =>
          \A i \in 1..tables.spiralCount :
              scene'.spiralPositions[i].y
                  = ClaimedSpiralHeight(i, tables.spiralCount, scene'.time)]_vars

\* C24, amended: after every tick in TREE mode every spiral particle's
\* height is within [-treeHeight/2, +treeHeight/2] and equals the claimed
\* height, except at the instant where the claimed height wraps to
\* -treeHeight/2: there the particle is at +treeHeight/2.
C24_SpiralHeightWrapsPastTop ==
    [][(TickStep /\ mode = "TREE") =>
          \A i \in 1..tables.spiralCount :
              LET y == scene'.spiralPositions[i].y
                  claimed == ClaimedSpiralHeight(i, tables.spiralCount, scene'.time)
              IN  /\ y >= -(treeHeight \div 2) /\ y <= treeHeight \div 2
                  /\ (y - claimed) % treeHeight = 0
                  /\ y # claimed => /\ y = treeHeight \div 2
                                    /\ i > 1]_vars

\* C24 witness: a tick in TREE mode has run at the instant where the
\* second particle's height reaches the top of the tree exactly, after a
\* tick where it was below it.
C24_Witness ==
    /\ lastOp.op = "animate" /\ mode = "TREE" /\ scene.ticks = 2
    /\ scene.time * spiralSpeed = treeHeight \div 2
    /\ scene.spiralPositions[2].y = treeHeight \div 2
    /\ ClaimedSpiralHeight(2, tables.spiralCount, scene.time) = -(treeHeight \div 2)

\* C29: exactly one invocation of animate is due in every state: a tick
\* leaves one due, whether it completes or throws, no other operation
\* requests or cancels one, and after a tick that threw the next tick can
\* run (as long as the model follows ticks).
C29_OneTickPending ==
    /\ scene.pending = 1
    /\ [][/\ scene'.pending = 1
          /\ lastOp'.op \in {"animate", "animateThrew"} => scene.pending >= 1
          /\ (lastOp'.op = "animateThrew" /\ scene'.ticks < MaxTicks
                  /\ Len(videoEl'.tasks) < MaxVideoTasks)
                => (ENABLED (\E delta \in Deltas : animate(delta)))']_vars

\* C29 witness: a tick has run, the tick after it threw, and one
\* invocation is due.
C29_Witness ==
    /\ lastOp.op = "animateThrew"
    /\ scene.ticks = 1 /\ scene.time > 0
    /\ scene.pending = 1

\* The volume the fade aims at: 0 while the video plays, else 0.5.
FadeTarget == IF isPlayingVideo THEN 0 ELSE MusicVolume

\* C22: every tick leaves the music's volume in [0, 1], between its old
\* value and the target, strictly nearer to the target unless it was
\* there, and exactly at the target once it was within 0.01 of it; and
\* with isPlayingVideo constant the volume is at the target from some tick
\* on, for ever.
C22_FadeReachesTarget ==
    /\ [][lastOp'.op = "animate" =>
             /\ isPlayingVideo' = isPlayingVideo
             /\ scene'.volume \in 0..FullVolume
             /\ scene.volume <= FadeTarget
                   => scene'.volume >= scene.volume /\ scene'.volume <= FadeTarget
             /\ scene.volume >= FadeTarget
                   => scene'.volume <= scene.volume /\ scene'.volume >= FadeTarget
             /\ scene.volume # FadeTarget => scene'.volume # scene.volume
             /\ (scene.volume - FadeTarget \in -FadeSnap..FadeSnap)
                   => scene'.volume = FadeTarget]_vars
    /\ <>[](scene.volume = FadeTarget)

\* C22 witness: while the video plays, a tick has found the music just
\* above the snapping distance and brought it within it, short of the
\* target.
C22_Witness ==
    /\ lastOp.op = "animate" /\ scene.heard
    /\ isPlayingVideo
    /\ scene.volume = FadeSnap - 4

\* A tick has signalled buffering: the video was not paused and its
\* position had not moved by more than the epsilon for more than the
\* timeout.
TickSignalled ==
    /\ lastOp.op = "animate" /\ scene.stall.buffering
    /\ scene.stall.since > StallTimeout /\ scene.stall.ahead <= StallEpsilon

\* C23: in every run where, from some point on, the video keeps playing
\* (the position advances again and again, with no more stalls and no
\* 'waiting' or 'stalled' event), whatever the order of the 'timeupdate'
\* events and the ticks, buffering signalled by a tick is cleared by a
\* later tick; and no step that sets or clears the flag changes
\* isPlayingVideo.
C23_BufferingClearedOnceAdvancing ==
    /\ [][scene'.stall.buffering # scene.stall.buffering
             => isPlayingVideo' = isPlayingVideo]_vars
    /\ (/\ <>[](lastOp.op \notin {"videoStalls", "onWaiting"})
        /\ []<>(lastOp.op = "videoAdvances"))
          => [](TickSignalled
                  => <>(lastOp.op = "animate" /\ ~scene.stall.buffering))

====
